---- MODULE Spec2Model ----
(***************************************************************************)
(* Model of devices_policy.go: the pagination loop of                      *)
(* ListDeviceSettingsPolicies and the JSON encoding of                     *)
(* DeviceSettingsPolicyRequest.                                            *)
(*                                                                         *)
(* One call of ListDeviceSettingsPolicies is followed from its entry to    *)
(* its return.  The call blocks in api.makeRequestContext; the model       *)
(* splits the function at that point: SendRequest issues the request,      *)
(* and RecvOK / RequestError / DecodeError are the three ways the          *)
(* blocking call and the decoding that follows it can end.                 *)
(***************************************************************************)
EXTENDS Integers, Sequences, FiniteSets, TLC

(***************************************************************************)
(* Bounds of the model.                                                    *)
(***************************************************************************)
\* largest total_pages the server reports
MaxTotal == 3
\* largest number of items in one page
MaxPageLen == 2
\* largest number of fields set in one DeviceSettingsPolicyRequest
MaxPresent == 3
\* requests one call may issue before the model stops following it
MaxRequests == MaxTotal

(***************************************************************************)
(* Program constant (const block, line 29).                                *)
(***************************************************************************)
listDeviceSettingsPoliciesDefaultPageSize == 20

\* a page size the server may report that differs from the one requested
AltPerPage == 2 * listDeviceSettingsPoliciesDefaultPageSize + 10

\* values of ListDeviceSettingsPoliciesParams.Page / .PerPage a caller passes
\* (0 is the Go zero value, i.e. the field left unset)
CallerPages == {-1, 0, 1, 2}
CallerPerPages == {-5, 0, 1, 5}

VARIABLES
    callerParams,    \* the params argument as the caller passed it
    server,          \* behaviour of the remote API during this call
    pc,              \* position of the call: start, loop, waiting, done, failed
    autoPaginate,    \* local variable autoPaginate
    params,          \* params.ResultInfo, overwritten on every iteration
    policies,        \* local accumulator policies
    lastResultInfo,  \* local variable lastResultInfo
    inflight,        \* requests handed to the transport and not yet answered
    requests,        \* history: the query of every request issued, in order
    log,             \* history: every response decoded successfully, in order
    ret,             \* the values the call returned
    encReq,          \* a DeviceSettingsPolicyRequest handed to an update call
    encBody          \* the JSON object serialized from encReq

vars == <<callerParams, server, pc, autoPaginate, params, policies,
          lastResultInfo, inflight, requests, log, ret, encReq, encBody>>

listVars == <<callerParams, server, pc, autoPaginate, params, policies,
              lastResultInfo, inflight, requests, log, ret>>

encVars == <<encReq, encBody>>

(***************************************************************************)
(* ResultInfo: the pagination block of params and of every list response.  *)
(* done is the unexported flag Next() sets; it is never decoded from JSON. *)
(***************************************************************************)
ResultInfo(page, perPage, totalPages, count) ==
    [page |-> page, per_page |-> perPage, total_pages |-> totalPages,
     count |-> count, done |-> FALSE]

ZeroResultInfo == ResultInfo(0, 0, 0, 0)

\* ResultInfo.Next(): the next page when there is one, else the terminal marker
Next(p) ==
    IF p.page < p.total_pages
    THEN [p EXCEPT !.page = @ + 1]
    ELSE [p EXCEPT !.done = TRUE]

\* ResultInfo.Done()
Done(p) == p.done

\* buildURI: the query carries page and per_page, each omitted when zero
buildURI(p) ==
    [k \in {f \in {"page", "per_page"} : p[f] # 0} |-> p[k]]

\* the value a query carries for a key, 0 when the key is omitted
QueryValue(q, k) == IF k \in DOMAIN q THEN q[k] ELSE 0

(***************************************************************************)
(* The remote API.  A page of c items holds the items c, c-1, ..., 1: the  *)
(* items of one page are in an order sorting would change, and different   *)
(* pages share items.                                                      *)
(***************************************************************************)
PageItems(c) == [i \in 1..c |-> c + 1 - i]

\* the page a query asks for: the API serves page 1 when the query names no
\* page or a page below 1
RequestedPage(q) == IF QueryValue(q, "page") >= 1 THEN q.page ELSE 1

\* The responses the server may give to query q.
\*  echo: reports the requested page and a fixed total_pages; the page holds
\*        any number of items and per_page may differ from the requested one.
\*  free: reports any page number from 1 on, whatever was requested, with
\*        any number of items.
Responses(srv, q) ==
    IF srv.mode = "echo"
    THEN { [result_info |-> ResultInfo(RequestedPage(q), pp, srv.total, c),
            items |-> PageItems(c)] :
              pp \in {QueryValue(q, "per_page"), AltPerPage},
              c \in 0..MaxPageLen }
    ELSE { [result_info |-> ResultInfo(pg, QueryValue(q, "per_page"), srv.total, c),
            items |-> PageItems(c)] :
              pg \in 1..MaxTotal, c \in 0..MaxPageLen }

(***************************************************************************)
(* DeviceSettingsPolicyRequest and its JSON encoding.                      *)
(***************************************************************************)
Fields == {"disable_auto_fallback", "captive_portal", "allow_mode_switch",
           "switch_locked", "allow_updates", "auto_connect",
           "allowed_to_leave", "support_url", "service_mode_v2",
           "precedence", "name", "match", "enabled", "exclude_office_ips",
           "description"}

\* the fields whose struct tag carries omitempty
OmitEmpty == Fields \ {"exclude_office_ips"}

\* a field is a nil pointer ("absent"), or points to the zero value of its
\* type ("zero") or to another value ("set")
PresentFields(req) == {f \in Fields : req[f] # "absent"}

\* json.Marshal of the request: a nil pointer is omitted under omitempty and
\* written as null otherwise; a non-nil pointer is always written
Encode(req) ==
    [f \in {g \in Fields : req[g] # "absent" \/ g \notin OmitEmpty} |->
        IF req[f] = "absent" THEN "null" ELSE req[f]]

NoRequest == [f \in Fields |-> "absent"]

NoBody == [f \in {} |-> "null"]

(***************************************************************************)
(* ListDeviceSettingsPolicies                                              *)
(***************************************************************************)
NoReturn == [returned |-> FALSE, items |-> <<>>, info |-> <<>>, err |-> "nil"]

ListIdle ==
    /\ pc = "start"
    /\ autoPaginate = TRUE
    /\ params = ZeroResultInfo
    /\ policies = <<>>
    /\ lastResultInfo = ZeroResultInfo
    /\ inflight = <<>>
    /\ requests = <<>>
    /\ log = <<>>
    /\ ret = NoReturn

Init ==
    /\ callerParams \in [page : CallerPages, per_page : CallerPerPages]
    /\ server \in [mode : {"echo", "free"}, total : 0..MaxTotal]
    /\ ListIdle
    /\ encReq = NoRequest
    /\ encBody = NoBody

\* variant of AutoPaginate: single-page mode only when both fields are set
AutoPaginate_and(p) == ~(p.per_page >= 1 /\ p.page >= 1)

\* lines 256-259: autoPaginate is switched off when page or per_page is >= 1
AutoPaginate(p) == ~(p.per_page >= 1 \/ p.page >= 1)

\* variant of DefaultPerPage: only an unset (zero) per_page is defaulted
DefaultPerPage_zeroOnly(p) ==
    IF p.per_page = 0 THEN listDeviceSettingsPoliciesDefaultPageSize
                      ELSE p.per_page

\* lines 261-263: a per_page below 1 becomes the default page size
DefaultPerPage(p) ==
    IF p.per_page < 1 THEN listDeviceSettingsPoliciesDefaultPageSize
                      ELSE p.per_page

\* variant of Aggregate: the new page is put in front
Aggregate_prepend(acc, items) == items \o acc

\* line 278: policies = append(policies, r.Result...)
Aggregate(acc, items) == acc \o items

\* variant of LastInfo: the advanced cursor is kept instead
LastInfo_advanced(r) == Next(r.result_info)

\* line 279: lastResultInfo = r.ResultInfo
LastInfo(r) == r.result_info

\* variant of Advance: only the page is taken from the response
Advance_keepPerPage(old, r) == [Next(r.result_info) EXCEPT !.per_page = old.per_page]

\* line 280: params.ResultInfo = r.ResultInfo.Next(), whatever params held
Advance(old, r) == Next(r.result_info)

\* variant of Break: both conditions are required to leave the loop
Break_and(p, auto) == Done(p) /\ ~auto

\* line 281: if params.ResultInfo.Done() || !autoPaginate { break }
Break(p, auto) == Done(p) \/ ~auto

\* lines 254-266: entry of the call up to the loop
Begin ==
    /\ pc = "start"
    /\ autoPaginate' = AutoPaginate(callerParams)
    /\ params' = ResultInfo(callerParams.page, DefaultPerPage(callerParams), 0, 0)
    /\ policies' = <<>>
    /\ lastResultInfo' = ZeroResultInfo
    /\ pc' = "loop"
    /\ UNCHANGED <<callerParams, server, inflight, requests, log, ret>>
    /\ UNCHANGED encVars

\* variant of SendRequest: a request is issued while one is still in flight
SendRequest_pipelined ==
    /\ pc \in {"loop", "waiting"}
    /\ Len(requests) < MaxRequests
    /\ inflight' = Append(inflight, buildURI(params))
    /\ requests' = Append(requests, buildURI(params))
    /\ pc' = "waiting"
    /\ UNCHANGED <<callerParams, server, autoPaginate, params, policies,
                   lastResultInfo, log, ret>>
    /\ UNCHANGED encVars

\* lines 268-269: build the URI and hand the request to the transport
SendRequest ==
    /\ pc = "loop"
    /\ Len(requests) < MaxRequests
    /\ inflight' = Append(inflight, buildURI(params))
    /\ requests' = Append(requests, buildURI(params))
    /\ pc' = "waiting"
    /\ UNCHANGED <<callerParams, server, autoPaginate, params, policies,
                   lastResultInfo, log, ret>>
    /\ UNCHANGED encVars

\* variant of HandleResponse: a page without items also ends the loop
HandleResponse_stopOnEmpty(r) ==
    /\ policies' = Aggregate(policies, r.items)
    /\ lastResultInfo' = LastInfo(r)
    /\ params' = Advance(params, r)
    /\ log' = Append(log, r)
    /\ inflight' = Tail(inflight)
    /\ IF Break(params', autoPaginate) \/ r.items = <<>>
       THEN /\ pc' = "done"
            /\ ret' = [returned |-> TRUE, items |-> policies',
                       info |-> <<lastResultInfo'>>, err |-> "nil"]
       ELSE /\ pc' = "loop"
            /\ ret' = ret
    /\ UNCHANGED <<callerParams, server, autoPaginate, requests>>
    /\ UNCHANGED encVars

\* lines 273-285: a response decoded successfully
HandleResponse(r) ==
    /\ policies' = Aggregate(policies, r.items)
    /\ lastResultInfo' = LastInfo(r)
    /\ params' = Advance(params, r)
    /\ log' = Append(log, r)
    /\ inflight' = Tail(inflight)
    /\ IF Break(params', autoPaginate)
       THEN /\ pc' = "done"
            /\ ret' = [returned |-> TRUE, items |-> policies',
                       info |-> <<lastResultInfo'>>, err |-> "nil"]
       ELSE /\ pc' = "loop"
            /\ ret' = ret
    /\ UNCHANGED <<callerParams, server, autoPaginate, requests>>
    /\ UNCHANGED encVars

RecvOK ==
    /\ pc = "waiting"
    /\ inflight # <<>>
    /\ \E r \in Responses(server, Head(inflight)) : HandleResponse(r)

\* variant of Fail: the pages fetched so far are returned with the error
Fail_partial(kind) ==
    /\ pc' = "failed"
    /\ inflight' = Tail(inflight)
    /\ ret' = [returned |-> TRUE, items |-> policies,
               info |-> <<lastResultInfo>>, err |-> kind]
    /\ UNCHANGED <<callerParams, server, autoPaginate, params, policies,
                   lastResultInfo, requests, log>>
    /\ UNCHANGED encVars

\* lines 270-272 and 275-277: return nil, nil, err
Fail(kind) ==
    /\ pc' = "failed"
    /\ inflight' = Tail(inflight)
    /\ ret' = [returned |-> TRUE, items |-> <<>>, info |-> <<>>, err |-> kind]
    /\ UNCHANGED <<callerParams, server, autoPaginate, params, policies,
                   lastResultInfo, requests, log>>
    /\ UNCHANGED encVars

\* lines 269-272: makeRequestContext returns an error, either a transport
\* failure or the cancellation of ctx
RequestError ==
    /\ pc = "waiting"
    /\ inflight # <<>>
    /\ \E kind \in {"transport", "cancelled"} : Fail(kind)

\* lines 273-277: json.Unmarshal of the response fails
DecodeError ==
    /\ pc = "waiting"
    /\ inflight # <<>>
    /\ Fail("decode")

ListNext == Begin \/ SendRequest \/ RecvOK \/ RequestError \/ DecodeError

Spec == Init /\ [][ListNext]_vars

\* the same call against a server that echoes the requested page and reports
\* a fixed total_pages; every step of the call eventually completes
InitEcho == Init /\ server.mode = "echo"

SpecEcho == InitEcho /\ [][ListNext]_vars /\ WF_vars(ListNext)

(***************************************************************************)
(* UpdateDeviceSettingsPolicy (and the create / update-default calls):     *)
(* the request struct is serialized as the body of the call.               *)
(***************************************************************************)
InitEnc ==
    /\ callerParams = [page |-> 0, per_page |-> 0]
    /\ server = [mode |-> "echo", total |-> 0]
    /\ ListIdle
    /\ \E S \in SUBSET Fields :
         /\ Cardinality(S) <= MaxPresent
         /\ \E Z \in SUBSET S :
              encReq = [f \in Fields |->
                          IF f \in Z THEN "zero"
                          ELSE IF f \in S THEN "set" ELSE "absent"]
    /\ encBody = NoBody

UpdateDeviceSettingsPolicy ==
    /\ encBody = NoBody
    /\ encBody' = Encode(encReq)
    /\ UNCHANGED encReq
    /\ UNCHANGED listVars

SpecEnc == InitEnc /\ [][UpdateDeviceSettingsPolicy]_vars

(***************************************************************************)
(* Properties                                                              *)
(***************************************************************************)
\* the caller set page or per_page: single-page mode
SinglePageCall == callerParams.page >= 1 \/ callerParams.per_page >= 1

\* the caller set neither: auto-pagination mode
AutoCall == callerParams.page < 1 /\ callerParams.per_page < 1

Returned == pc \in {"done", "failed"}

Max(a, b) == IF a >= b THEN a ELSE b

\* the items of a sequence of responses, page after page
RECURSIVE Flatten(_)
Flatten(rs) == IF rs = <<>> THEN <<>> ELSE Head(rs).items \o Flatten(Tail(rs))

\* the sum of the item counts of a sequence of responses
RECURSIVE SumCounts(_)
SumCounts(rs) == IF rs = <<>> THEN 0 ELSE Len(Head(rs).items) + SumCounts(Tail(rs))

LastResponse == log[Len(log)]

\* C1 as stated: in single-page mode the one request carries the caller's own
\* page and per_page, and the call returns that page's items.
C1_RequestCarriesCallerValues ==
    (SinglePageCall /\ Len(requests) >= 1) =>
        /\ Len(requests) = 1
        /\ QueryValue(requests[1], "page") = callerParams.page
        /\ QueryValue(requests[1], "per_page") = callerParams.per_page
        /\ (pc = "done" => ret.items = log[1].items)

\* C1 (amended): in single-page mode (page >= 1 or per_page >= 1) the call
\* issues exactly one request, carrying the caller's page and the caller's
\* per_page when that is >= 1 and the default 20 otherwise, and never goes
\* round the loop again whatever result_info the response carries; on success
\* the returned items are exactly that one page's items.
C1_SinglePageOneRequest ==
    SinglePageCall =>
        /\ Len(requests) <= 1
        /\ (pc \in {"waiting", "done", "failed"} => Len(requests) = 1)
        /\ (pc = "loop" => requests = <<>>)
        /\ (Len(requests) = 1 =>
              /\ QueryValue(requests[1], "page") = callerParams.page
              /\ QueryValue(requests[1], "per_page") =
                    IF callerParams.per_page >= 1
                    THEN callerParams.per_page
                    ELSE listDeviceSettingsPoliciesDefaultPageSize)
        /\ (pc = "done" => Len(log) = 1 /\ ret.items = log[1].items)

\* a single-page call at the boundary page = 1 returned although the response
\* reported further pages
C1_Witness ==
    /\ callerParams.page = 1
    /\ callerParams.per_page < 1
    /\ pc = "done"
    /\ Len(requests) = 1
    /\ log[1].result_info.page < log[1].result_info.total_pages
    /\ ret.items = <<2, 1>>

\* C2 as stated: a successful auto-paginated call returns the fetched pages'
\* items concatenated in ascending page-number order.
C2_AscendingPageOrder ==
    (AutoCall /\ pc = "done") =>
        /\ ret.items = Flatten(log)
        /\ Len(ret.items) = SumCounts(log)
        /\ \A i, j \in 1..Len(log) :
              i < j => log[i].result_info.page < log[j].result_info.page

\* C2 (amended): a successful auto-paginated call keeps requesting until a
\* response reports page >= total_pages, and returns the concatenation of the
\* fetched pages' items in the order the pages were fetched, items in page
\* order, nothing reordered or de-duplicated, so the length is the sum of the
\* page item counts; against a server that echoes the requested page number
\* that order is ascending page-number order 1, 2, 3, ...
C2_ConcatenationInFetchOrder ==
    (AutoCall /\ pc = "done") =>
        /\ log # <<>>
        /\ ret.items = Flatten(log)
        /\ Len(ret.items) = SumCounts(log)
        /\ LastResponse.result_info.page >= LastResponse.result_info.total_pages
        /\ \A i \in 1..(Len(log) - 1) :
              log[i].result_info.page < log[i].result_info.total_pages
        /\ (server.mode = "echo" =>
              \A i \in 1..Len(log) : log[i].result_info.page = i)

\* three pages aggregated, with an item repeated across pages and a page whose
\* items are not in sorted order
C2_Witness ==
    /\ AutoCall
    /\ server.mode = "echo"
    /\ pc = "done"
    /\ Len(log) = 3
    /\ ret.items = <<2, 1, 1, 2, 1>>

\* C3: when a fetch fails (transport failure, cancellation or decode failure)
\* the call returns the error with no items and no pagination metadata, even
\* when earlier pages were fetched, and issues no further request.
C3_FailureReturnsNothing ==
    pc = "failed" =>
        /\ ret.returned
        /\ ret.err \in {"transport", "cancelled", "decode"}
        /\ ret.items = <<>>
        /\ ret.info = <<>>
        /\ Len(requests) = Len(log) + 1
        /\ inflight = <<>>
        /\ ~ENABLED SendRequest

\* the fetch of page 2 of 3 failed after page 1 had delivered items
C3_Witness ==
    /\ pc = "failed"
    /\ server = [mode |-> "echo", total |-> 3]
    /\ Len(log) = 1
    /\ policies # <<>>
    /\ QueryValue(requests[2], "page") = 2
    /\ ret.err = "transport"

\* C4: the serialized body of a DeviceSettingsPolicyRequest has exactly the
\* keys of the fields that are present (only name and enabled set gives a
\* body with exactly name and enabled).
C4_OnlyPresentFieldsSerialized ==
    encBody # NoBody => DOMAIN encBody = PresentFields(encReq)

\* C5: a per_page below 1 is replaced by the default 20 and is no error: the
\* first request carries per_page = 20 and the caller's page, whatever value
\* below 1 per_page had, and the call fails only after a request was issued.
C5_PerPageDefault ==
    callerParams.per_page < 1 =>
        /\ (pc = "start" => ENABLED Begin)
        /\ (pc # "start" =>
              params.per_page >= 1 \/ log # <<>>)
        /\ (pc = "failed" => requests # <<>>)
        /\ (Len(requests) >= 1 =>
              /\ QueryValue(requests[1], "per_page") =
                    listDeviceSettingsPoliciesDefaultPageSize
              /\ QueryValue(requests[1], "page") = callerParams.page)

\* a call with per_page = -5 and page = 2 issued its request
C5_Witness ==
    /\ callerParams = [page |-> 2, per_page |-> -5]
    /\ Len(requests) = 1
    /\ requests[1] = [page |-> 2,
                      per_page |-> listDeviceSettingsPoliciesDefaultPageSize]

C6_Safe ==
    AutoCall =>
        /\ Len(requests) <= Max(server.total, 1)
        /\ \A i \in 1..Len(requests) :
              QueryValue(requests[i], "page") <= server.total
        /\ (pc = "loop" /\ log # <<>> =>
              /\ LastResponse.result_info.page < LastResponse.result_info.total_pages
              /\ params.page = LastResponse.result_info.page + 1
              /\ ~Done(params))
        /\ (pc = "done" =>
              /\ LastResponse.result_info.page >= LastResponse.result_info.total_pages
              /\ Done(params)
              /\ Len(requests) = Max(server.total, 1))

\* C6: in auto-pagination mode, against a server that echoes the requested
\* page and reports a fixed total_pages = N, the cursor after a fetch is
\* page + 1 while page < N and terminal otherwise, no page beyond N is
\* requested, the call eventually returns, and a call whose fetches all
\* succeed returns after exactly N requests (one when N <= 1).
C6_EchoServerTerminates == [](C6_Safe) /\ <>Returned

\* an auto-paginated call against a server with 3 pages returned after 3 requests
C6_Witness ==
    /\ AutoCall
    /\ server = [mode |-> "echo", total |-> 3]
    /\ pc = "done"
    /\ Len(requests) = 3

\* C7: on success the call returns the result_info of the last page fetched,
\* unmodified: not the first page's, not the advanced cursor.
C7_LastResultInfoReturned ==
    pc = "done" =>
        /\ ret.err = "nil"
        /\ ret.items = policies
        /\ ret.info = <<LastResponse.result_info>>

\* two pages of 2 and 1 items were fetched and their result_info differ
C7_Witness ==
    /\ pc = "done"
    /\ Len(log) = 2
    /\ Len(log[1].items) = 2
    /\ Len(log[2].items) = 1
    /\ log[1].result_info.per_page # log[2].result_info.per_page
    /\ ret.info = <<log[2].result_info>>

\* C8: in auto-pagination mode a fetched page with zero items and a
\* non-terminal cursor never ends the call: the next page is requested, and
\* the items of the pages after it are part of the result.
C8_EmptyPageContinues ==
    AutoCall =>
        \A i \in 1..Len(log) :
            (log[i].items = <<>> /\ ~Done(Next(log[i].result_info))) =>
                /\ (i = Len(log) =>
                      \/ pc = "loop" /\ params.page = log[i].result_info.page + 1
                      \/ pc \in {"waiting", "failed"} /\ Len(requests) = i + 1)
                /\ (pc = "done" => i < Len(log) /\ ret.items = Flatten(log))

\* an empty first page was followed by a page with items, which were returned
C8_Witness ==
    /\ AutoCall
    /\ pc = "done"
    /\ Len(log) >= 2
    /\ log[1].items = <<>>
    /\ log[2].items # <<>>
    /\ ret.items # <<>>

\* C9 as stated: one request in flight at most, each issued after the previous
\* response was decoded, and the pages requested are strictly ascending with
\* none requested twice or skipped.
C9_AscendingRequests ==
    /\ Len(inflight) <= 1
    /\ Len(requests) <= Len(log) + 1
    /\ \A i \in 1..(Len(requests) - 1) :
          RequestedPage(requests[i + 1]) = RequestedPage(requests[i]) + 1

\* C9 (amended): the loop is strictly sequential: at most one request is in
\* flight, and a request is issued only after every earlier one was answered
\* and decoded successfully; against a server that echoes the requested page
\* number the pages requested are 1, 2, 3, ... with none requested twice or
\* skipped.
C9_Sequential ==
    /\ Len(inflight) <= 1
    /\ (pc = "waiting" <=> Len(inflight) = 1)
    /\ Len(requests) =
          Len(log) + (IF pc \in {"waiting", "failed"} THEN 1 ELSE 0)
    /\ ((server.mode = "echo" /\ AutoCall) =>
          \A i \in 1..Len(requests) : RequestedPage(requests[i]) = i)

\* the third request of a call is in flight after two decoded responses
C9_Witness ==
    /\ pc = "waiting"
    /\ server.mode = "echo"
    /\ Len(log) = 2
    /\ Len(requests) = 3
    /\ RequestedPage(requests[3]) = 3

\* C10: in auto-pagination mode every request after the first carries the
\* previous response's page + 1 and the previous response's per_page; only
\* the first request is sure to carry the default per_page of 20.
C10_ParamsFromPreviousResponse ==
    AutoCall =>
        /\ (Len(requests) >= 1 =>
              QueryValue(requests[1], "per_page") =
                  listDeviceSettingsPoliciesDefaultPageSize)
        /\ \A i \in 2..Len(requests) :
              /\ QueryValue(requests[i], "page") = log[i - 1].result_info.page + 1
              /\ QueryValue(requests[i], "per_page") = log[i - 1].result_info.per_page

\* the server reported another per_page and the second request carries it
C10_Witness ==
    /\ AutoCall
    /\ Len(requests) >= 2
    /\ QueryValue(requests[1], "per_page") = listDeviceSettingsPoliciesDefaultPageSize
    /\ QueryValue(requests[2], "per_page") = AltPerPage

====
